---- MODULE Spec2Model ----
(***************************************************************************)
(* Model of the Freesound back end core (src/core/spotify.js and the older *)
(* Redis-keyed copy of the same class kept in src/core/youtube.js):        *)
(*   - the per-session user token lifecycle (getUserTokens,                *)
(*     refreshUserAccessToken, setUserTokens),                             *)
(*   - the process-wide client-credentials token,                          *)
(*   - the read-through cache helper _getWithCache.                        *)
(* impl = "session" is src/core/spotify.js (tokens live in the session     *)
(* object), impl = "redis" is the copy in src/core/youtube.js (tokens live *)
(* under a Redis key).  Every await of the code is a point where another   *)
(* call may run; a Redis command executes in the step that issues it and   *)
(* its reply is consumed by the next step of the issuing call.             *)
(***************************************************************************)
EXTENDS Integers, Sequences, FiniteSets, TLC

VARIABLES
    impl,      \* which copy of the class runs: "session" | "redis"
    now,       \* Date.now(), in ms
    tokens,    \* the Credential Record of the one session: <<>> or <<record>>
    pc,        \* per getUserTokens call: where it is suspended
    snap,      \* per call: the last Redis reply it is about to consume
    rt,        \* per call: the refresh token captured before the fetch
    resp,      \* per call: the provider's answer to its refresh request
    rret,      \* per call: value returned by refreshUserAccessToken
    ret,       \* per call: outcome of getUserTokens
    issued,    \* number of token pairs the provider has minted so far
    revoked,   \* refresh tokens a rotating provider has invalidated
    loggedOut, \* logout has deleted the record, and no code exchange since
    ccToken,   \* this.clientCredentialsToken (Undef while null)
    ccExpiresAt, \* this.clientCredentialsTokenExpiresAt
    ccPc,      \* per getClientCredentialsToken call: where it is suspended
    ccResp,    \* per call: the provider's answer to its token request
    ccRet,     \* per call: outcome of getClientCredentialsToken
    ccIssued,  \* number of client-credentials tokens minted so far
    cache,     \* the Redis cache: key -> << >> or <<entry>>
    gpc,       \* per _getWithCache call: where it is suspended
    gkey,      \* per call: its cache key
    greply,    \* per call: the Redis reply it is about to consume
    gfresh,    \* per call: freshData
    gcalls,    \* per call: how often it invoked the fetcher
    gret,      \* per call: outcome of _getWithCache
    gerr,      \* per call: a Redis command of the call failed
    gprior,    \* per call: the calls that had returned when it started
    cacheKey,  \* per cached-operation call: the cache key it built
    upstream,  \* per call: the upstream requests its fetcher sends
    credential, \* per call: whose token its fetcher's requests carry
    apiPc,     \* the _makeApiRequest call: where it is suspended
    apiResponse, \* the upstream response it received
    apiOutcome, \* what it returned or threw
    srPc,      \* the searchMultiType call: where it is suspended
    srQuery,   \* its query argument
    srLimit,   \* its limit argument
    srRequests, \* the upstream requests it has sent
    srData,    \* the data _makeApiRequest resolved with
    srResult,  \* what it returned
    relQuery,  \* calculateRelevance: the query of the enclosing search
    relType,   \* the type argument of the two calls compared
    relName,   \* the name argument of either call
    relScore,  \* the score either call returned (Undef before it)
    mdPc,      \* per stream request: where it is suspended
    mdTarget,  \* per request: parsedDurationMs, passed as targetDurationMs
    mdLines,   \* per request: the parsed lines of the metadata search
    mdVideos,  \* per request: videoMetadatas, the valid candidates
    mdOutcome, \* per request: the candidate selected and what
               \* searchAndDownload returned or threw
    mdResponse, \* per request: the HTTP status sent (0 before it)
    mdExit,    \* per request: how its downloader process exited
    file,      \* the output file of the requests' path is on disk
    downloads  \* the requests that have invoked the downloader

provState == <<revoked, loggedOut>>
tokState == <<tokens, pc, snap, rt, resp, rret, ret, issued, provState>>
ccState == <<ccToken, ccExpiresAt, ccPc, ccResp, ccRet, ccIssued>>
cacheState == <<cache, gpc, gkey, greply, gfresh, gcalls, gret, gerr, gprior>>

keyState == <<cacheKey, upstream, credential>>
reqState == <<apiPc, apiResponse, apiOutcome>>
searchState == <<srPc, srQuery, srLimit, srRequests, srData, srResult>>
relState == <<relQuery, relType, relName, relScore>>
apiState == <<keyState, reqState, searchState, relState>>

mediaState ==
    <<mdPc, mdTarget, mdLines, mdVideos, mdOutcome, mdResponse, mdExit, file,
      downloads>>

vars == <<impl, now, tokState, ccState, cacheState, apiState, mediaState>>

----------------------------------------------------------------------------
(* Bounds and program constants *)

MaxTicks == 3
MaxIssued == 2
Margin == 60000

Calls == {"c1", "c2"}
TickMs == Margin \div 2
Undef == -1
NoRec == << >>
StatusNetErr == 0
StatusNone == -1
ProviderStatuses == {200, 400, 401, 403, 500, StatusNetErr}
ExpiresInChoices == {0, 3600}
InitExpiresAt == {TickMs, 2 * Margin}
InitRefreshTokens == {0, Undef}
CCCalls == {"a1", "a2", "a3"}
CCStatuses == {200, 500, StatusNetErr}
CacheKeys == {"k1", "k2"}
DefaultTtl == 3600
FieldOrder == <<"success", "message", "id", "image">>
Payloads == { [id |-> "a", image |-> "u"],
              [id |-> "a", image |-> "undefined"],
              [id |-> "b", image |-> "null"],
              [success |-> "false", message |-> "m"] }

NoResp == [status |-> StatusNone, access_token |-> Undef,
           refresh_token |-> Undef, expires_in |-> 0, scope |-> Undef]

Pending == [kind |-> "pending", accessToken |-> Undef, refreshToken |-> Undef,
            expiresAt |-> 0, at |-> 0]

----------------------------------------------------------------------------
(* Values *)

Truthy(v) == v # Undef

Rec(a, r, e, s) ==
    [accessToken |-> a, refreshToken |-> r, expiresAt |-> e, scope |-> s]

\* response.ok of node-fetch: status in 200..299
ResponseOk(r) == r.status >= 200 /\ r.status <= 299

\* the outcome "return null" / "return undefined" / a thrown TypeError
Outcome(k) == [Pending EXCEPT !.kind = k, !.at = now]

\* the outcome "return tokens": the value handed to the caller, with the
\* expiresAt of the record it was taken from
TokensOutcome(rec) ==
    [kind |-> "tokens", accessToken |-> rec.accessToken,
     refreshToken |-> rec.refreshToken, expiresAt |-> rec.expiresAt, at |-> now]

----------------------------------------------------------------------------
(* Token Lifecycle Manager: pure parts *)

Expired_NoMargin(rec) == rec.expiresAt <= now

\* tokens.expiresAt <= Date.now() + 60000
Expired(rec) == rec.expiresAt <= now + Margin

\* newTokenData.refresh_token || refreshToken
NewRefreshToken(r, old) ==
    IF Truthy(r.refresh_token) THEN r.refresh_token ELSE old

setUserTokens_Seconds(cur, tokenData) ==
    IF ~Truthy(tokenData.access_token)
    THEN cur
    ELSE << Rec(tokenData.access_token, tokenData.refresh_token,
                now + tokenData.expires_in, tokenData.scope) >>

\* setUserTokens(session, tokenData): the record after the call
setUserTokens(cur, tokenData) ==
    IF ~Truthy(tokenData.access_token)
    THEN cur
    ELSE << Rec(tokenData.access_token, tokenData.refresh_token,
                now + (tokenData.expires_in * 1000), tokenData.scope) >>

ClearOnReject_Only400(cur, status) ==
    IF status = 400 THEN NoRec ELSE cur

ClearOnReject_AnyError(cur, status) ==
    IF status >= 400 THEN NoRec ELSE cur

\* the record after a non-ok answer to the refresh request
ClearOnReject(cur, status) ==
    IF status = 400 \/ status = 401 THEN NoRec ELSE cur

\* what the caller of getUserTokens gets when the refresh threw
RefreshFailedOutcome(r) == Outcome("null")

Finish(c, o) ==
    /\ ret' = [ret EXCEPT ![c] = o]
    /\ pc' = [pc EXCEPT ![c] = "done"]

----------------------------------------------------------------------------
(* The parts that stay idle in a specification of another part *)

NoCCResp == [status |-> StatusNone, access_token |-> Undef, expires_in |-> 0]
CCPending == [kind |-> "pending", token |-> Undef]
NoReply == [error |-> FALSE, data |-> << >>]
GPending == [kind |-> "pending", val |-> << >>]

InitCCIdle ==
    /\ ccToken = Undef
    /\ ccExpiresAt = 0
    /\ ccPc = [c \in CCCalls |-> "idle"]
    /\ ccResp = [c \in CCCalls |-> NoCCResp]
    /\ ccRet = [c \in CCCalls |-> CCPending]
    /\ ccIssued = 0

InitCacheIdle ==
    /\ cache = [k \in CacheKeys |-> << >>]
    /\ gpc = [c \in Calls |-> "idle"]
    /\ gkey = [c \in Calls |-> "k1"]
    /\ greply = [c \in Calls |-> NoReply]
    /\ gfresh = [c \in Calls |-> << >>]
    /\ gcalls = [c \in Calls |-> 0]
    /\ gret = [c \in Calls |-> GPending]
    /\ gerr = [c \in Calls |-> FALSE]
    /\ gprior = [c \in Calls |-> {}]

KeyCalls == {"p", "q"}
NotBuilt == << >>

InitKeyIdle ==
    /\ cacheKey = [c \in KeyCalls |-> NotBuilt]
    /\ upstream = [c \in KeyCalls |-> {}]
    /\ credential = [c \in KeyCalls |-> NotBuilt]

\* an unreadable body, and the fields of a JSON body that the error path
\* reads (absent: "undefined" / Undef)
Unparsable ==
    [parsable |-> FALSE, errMessage |-> "undefined", errStatus |-> Undef,
     message |-> "undefined"]
NoApiResponse ==
    [status |-> StatusNone, statusText |-> "", contentLength |-> "absent",
     body |-> Unparsable]
ApiPending ==
    [kind |-> "pending", status |-> Undef, message |-> "undefined",
     body |-> Unparsable]

InitReqIdle ==
    /\ apiPc = "idle"
    /\ apiResponse = NoApiResponse
    /\ apiOutcome = ApiPending

NoData == << >>
NullData == [null |-> TRUE]
NoResult == [success |-> "pending"]

InitSearchIdle ==
    /\ srPc = "idle"
    /\ srQuery = << >>
    /\ srLimit = 0
    /\ srRequests = << >>
    /\ srData = NoData
    /\ srResult = NoResult

Slots == {"A", "B"}

InitRelIdle ==
    /\ relQuery = << >>
    /\ relType = "track"
    /\ relName = [x \in Slots |-> << >>]
    /\ relScore = [x \in Slots |-> Undef]

Requests == {"r1", "r2"}
MdPending == [kind |-> "pending", index |-> 0, message |-> << >>]

InitMediaStart ==
    /\ mdPc = [r \in Requests |-> "idle"]
    /\ mdTarget = [r \in Requests |-> 0]
    /\ mdLines = [r \in Requests |-> << >>]
    /\ mdVideos = [r \in Requests |-> << >>]
    /\ mdOutcome = [r \in Requests |-> MdPending]
    /\ mdResponse = [r \in Requests |-> 0]
    /\ mdExit = [r \in Requests |-> "none"]
    /\ downloads = {}

InitMediaIdle == InitMediaStart /\ file = FALSE

InitApiIdle ==
    /\ InitKeyIdle
    /\ InitReqIdle
    /\ InitSearchIdle
    /\ InitRelIdle

InitTokIdle ==
    /\ tokens = NoRec
    /\ pc = [c \in Calls |-> "idle"]
    /\ snap = [c \in Calls |-> NoRec]
    /\ rt = [c \in Calls |-> Undef]
    /\ resp = [c \in Calls |-> NoResp]
    /\ rret = [c \in Calls |-> Undef]
    /\ ret = [c \in Calls |-> Pending]
    /\ issued = 0
    /\ revoked = {}
    /\ loggedOut = FALSE

----------------------------------------------------------------------------
(* Token Lifecycle Manager: steps of one getUserTokens call *)

InitToken ==
    /\ impl \in {"session", "redis"}
    /\ now = 0
    /\ tokens \in {NoRec} \cup
          { << Rec(0, r, e, 0) >> : r \in InitRefreshTokens, e \in InitExpiresAt }
    /\ pc = [c \in Calls |-> "idle"]
    /\ snap = [c \in Calls |-> NoRec]
    /\ rt = [c \in Calls |-> Undef]
    /\ resp = [c \in Calls |-> NoResp]
    /\ rret = [c \in Calls |-> Undef]
    /\ ret = [c \in Calls |-> Pending]
    /\ issued = 0
    /\ revoked = {}
    /\ loggedOut = FALSE
    /\ InitCCIdle
    /\ InitCacheIdle
    /\ InitApiIdle
    /\ InitMediaIdle

Tick ==
    /\ now < MaxTicks * TickMs
    /\ now' = now + TickMs
    /\ UNCHANGED <<impl, tokState, ccState, cacheState, apiState, mediaState>>

\* getUserTokens is entered.  session: runs up to the fetch of
\* refreshUserAccessToken without suspending.  redis: issues redis.get.
GetUserTokens(c) ==
    /\ pc[c] = "idle"
    /\ IF impl = "redis"
       THEN /\ snap' = [snap EXCEPT ![c] = tokens]
            /\ pc' = [pc EXCEPT ![c] = "gut"]
            /\ UNCHANGED <<tokens, rt, ret>>
       ELSE /\ UNCHANGED snap
            /\ IF tokens = NoRec
               THEN Finish(c, Outcome("null")) /\ UNCHANGED <<tokens, rt>>
               ELSE IF Expired(tokens[1])
               THEN IF ~Truthy(tokens[1].refreshToken)
                    THEN /\ tokens' = NoRec
                         /\ Finish(c, Outcome("null"))
                         /\ UNCHANGED rt
                    ELSE /\ rt' = [rt EXCEPT ![c] = tokens[1].refreshToken]
                         /\ pc' = [pc EXCEPT ![c] = "fetching"]
                         /\ UNCHANGED <<tokens, ret>>
               ELSE Finish(c, TokensOutcome(tokens[1])) /\ UNCHANGED <<tokens, rt>>
    /\ UNCHANGED <<impl, now, resp, rret, issued>>
    /\ UNCHANGED <<provState, ccState, cacheState, apiState, mediaState>>

\* redis: getUserTokens resumes with the reply of its redis.get
GutReply(c) ==
    /\ pc[c] = "gut"
    /\ IF snap[c] = NoRec
       THEN Finish(c, Outcome("null")) /\ UNCHANGED snap
       ELSE IF Expired(snap[c][1])
       THEN /\ snap' = [snap EXCEPT ![c] = tokens]
            /\ pc' = [pc EXCEPT ![c] = "ref"]
            /\ UNCHANGED ret
       ELSE Finish(c, TokensOutcome(snap[c][1])) /\ UNCHANGED snap
    /\ UNCHANGED <<impl, now, tokens, rt, resp, rret, issued>>
    /\ UNCHANGED <<provState, ccState, cacheState, apiState, mediaState>>

\* redis: refreshUserAccessToken resumes with the reply of its redis.get
RefReply(c) ==
    /\ pc[c] = "ref"
    /\ IF snap[c] = NoRec
       THEN Finish(c, Outcome("null")) /\ UNCHANGED <<tokens, rt>>
       ELSE IF ~Truthy(snap[c][1].refreshToken)
       THEN /\ tokens' = NoRec
            /\ Finish(c, Outcome("null"))
            /\ UNCHANGED rt
       ELSE /\ rt' = [rt EXCEPT ![c] = snap[c][1].refreshToken]
            /\ pc' = [pc EXCEPT ![c] = "fetching"]
            /\ UNCHANGED <<tokens, ret>>
    /\ UNCHANGED <<impl, now, snap, resp, rret, issued>>
    /\ UNCHANGED <<provState, ccState, cacheState, apiState, mediaState>>

\* the identity provider answers the refresh request (or the network fails)
ProviderRespond(c) ==
    /\ pc[c] = "fetching"
    /\ \E st \in ProviderStatuses :
         IF st = 200
         THEN /\ issued < MaxIssued
              /\ issued' = issued + 1
              /\ \E a \in {Undef, issued + 1}, r \in {Undef, issued + 1},
                    e \in ExpiresInChoices :
                   resp' = [resp EXCEPT ![c] =
                              [status |-> st, access_token |-> a,
                               refresh_token |-> r, expires_in |-> e, scope |-> 1]]
         ELSE /\ resp' = [resp EXCEPT ![c] = [NoResp EXCEPT !.status = st]]
              /\ UNCHANGED issued
    /\ pc' = [pc EXCEPT ![c] = "responded"]
    /\ UNCHANGED <<impl, now, tokens, snap, rt, rret, ret>>
    /\ UNCHANGED <<provState, ccState, cacheState, apiState, mediaState>>

\* refreshUserAccessToken resumes with the answer: a thrown fetch, a non-ok
\* status, or a token body that goes to setUserTokens
HandleResponse(c) ==
    /\ pc[c] = "responded"
    /\ LET r == resp[c] IN
       IF r.status = StatusNetErr
       THEN Finish(c, RefreshFailedOutcome(r)) /\ UNCHANGED tokens
       ELSE IF ~ResponseOk(r)
       THEN /\ tokens' = ClearOnReject(tokens, r.status)
            /\ Finish(c, RefreshFailedOutcome(r))
       ELSE /\ tokens' = setUserTokens(tokens,
                            [r EXCEPT !.refresh_token = NewRefreshToken(r, rt[c])])
            /\ pc' = [pc EXCEPT ![c] = "stored"]
            /\ UNCHANGED ret
    /\ UNCHANGED <<impl, now, snap, rt, resp, rret, issued>>
    /\ UNCHANGED <<provState, ccState, cacheState, apiState, mediaState>>

\* after `await this.setUserTokens(...)`.  session: reads
\* session.tokens.accessToken.  redis: issues the read-back redis.get.
AfterStore(c) ==
    /\ pc[c] = "stored"
    /\ IF impl = "redis"
       THEN /\ snap' = [snap EXCEPT ![c] = tokens]
            /\ pc' = [pc EXCEPT ![c] = "readback"]
            /\ UNCHANGED <<rret, ret>>
       ELSE /\ UNCHANGED snap
            /\ IF tokens = NoRec
               THEN Finish(c, Outcome("null")) /\ UNCHANGED rret
               ELSE /\ rret' = [rret EXCEPT ![c] = tokens[1].accessToken]
                    /\ pc' = [pc EXCEPT ![c] = "refreshed"]
                    /\ UNCHANGED ret
    /\ UNCHANGED <<impl, now, tokens, rt, resp, issued>>
    /\ UNCHANGED <<provState, ccState, cacheState, apiState, mediaState>>

\* redis: refreshUserAccessToken resumes with the read-back reply
ReadbackReply(c) ==
    /\ pc[c] = "readback"
    /\ IF snap[c] = NoRec
       THEN Finish(c, Outcome("null")) /\ UNCHANGED rret
       ELSE /\ rret' = [rret EXCEPT ![c] = snap[c][1].accessToken]
            /\ pc' = [pc EXCEPT ![c] = "refreshed"]
            /\ UNCHANGED ret
    /\ UNCHANGED <<impl, now, tokens, snap, rt, resp, issued>>
    /\ UNCHANGED <<provState, ccState, cacheState, apiState, mediaState>>

\* getUserTokens resumes with the value of refreshUserAccessToken
Refreshed(c) ==
    /\ pc[c] = "refreshed"
    /\ IF ~Truthy(rret[c])
       THEN Finish(c, Outcome("null")) /\ UNCHANGED snap
       ELSE IF impl = "redis"
       THEN /\ snap' = [snap EXCEPT ![c] = tokens]
            /\ pc' = [pc EXCEPT ![c] = "final"]
            /\ UNCHANGED ret
       ELSE /\ UNCHANGED snap
            /\ IF tokens = NoRec
               THEN Finish(c, Outcome("undefined"))
               ELSE Finish(c, TokensOutcome(tokens[1]))
    /\ UNCHANGED <<impl, now, tokens, rt, resp, rret, issued>>
    /\ UNCHANGED <<provState, ccState, cacheState, apiState, mediaState>>

\* redis: getUserTokens resumes with its second redis.get and returns
FinalReply(c) ==
    /\ pc[c] = "final"
    /\ IF snap[c] = NoRec
       THEN Finish(c, Outcome("throw"))
       ELSE Finish(c, TokensOutcome(snap[c][1]))
    /\ UNCHANGED <<impl, now, tokens, snap, rt, resp, rret, issued>>
    /\ UNCHANGED <<provState, ccState, cacheState, apiState, mediaState>>

NextToken ==
    \/ Tick
    \/ \E c \in Calls : GetUserTokens(c)
    \/ \E c \in Calls : GutReply(c)
    \/ \E c \in Calls : RefReply(c)
    \/ \E c \in Calls : ProviderRespond(c)
    \/ \E c \in Calls : HandleResponse(c)
    \/ \E c \in Calls : AfterStore(c)
    \/ \E c \in Calls : ReadbackReply(c)
    \/ \E c \in Calls : Refreshed(c)
    \/ \E c \in Calls : FinalReply(c)

SpecToken == InitToken /\ [][NextToken]_vars

TypeOK ==
    /\ impl \in {"session", "redis"}
    /\ Len(tokens) <= 1
    /\ \A c \in Calls : pc[c] \in {"idle", "gut", "ref", "fetching", "responded",
                                   "stored", "readback", "refreshed", "final", "done"}

----------------------------------------------------------------------------
(* Token Lifecycle Manager: properties *)

\* call c takes a step
Step(c) == pc'[c] # pc[c]

\* the record getUserTokens examines at its expiry check
AtExpiryCheck(c) == pc[c] = (IF impl = "redis" THEN "gut" ELSE "idle")
Examined(c) == IF impl = "redis" THEN snap[c] ELSE tokens

\* a refresh request of call c is in flight at the provider
RefreshInFlight(c) == pc[c] = "fetching"

IsTransient(r) == r.status = StatusNetErr \/ (r.status >= 500 /\ r.status <= 599)
IsClientError(r) == r.status >= 400 /\ r.status <= 499
IsRejected(r) == r.status = 400 \/ r.status = 401
IsTokenBody(r) == ResponseOk(r) /\ Truthy(r.access_token)

\* what the caller can look at
Visible(o) == [kind |-> o.kind, accessToken |-> o.accessToken,
               refreshToken |-> o.refreshToken]

\* C1: concurrent getUserTokens calls for one expired session never have two
\* refresh requests in flight at the provider at once.
C1_RefreshSerialized ==
    Cardinality({c \in Calls : RefreshInFlight(c)}) <= 1

\* C2: with a record that expires more than 60 s from now getUserTokens
\* returns the stored token at once, sends nothing and leaves the record
\* alone; a call that sent no refresh request never returned a token whose
\* expiresAt was within 60 s of the time of return.
C2_FreshReturnedExpiringRefreshed ==
    [][ /\ \A c \in Calls :
             (AtExpiryCheck(c) /\ Step(c) /\ Examined(c) # NoRec
                 /\ Examined(c)[1].expiresAt > now + Margin)
             => /\ pc'[c] = "done"
                /\ ret'[c] = TokensOutcome(Examined(c)[1])
                /\ tokens' = tokens
                /\ resp'[c] = NoResp
        /\ \A c \in Calls :
             (ret'[c].kind = "tokens" /\ resp'[c].status = StatusNone)
             => ret'[c].expiresAt > ret'[c].at + Margin
      ]_vars

C2_Witness ==
    \E c, d \in Calls :
        /\ ret[c].kind = "tokens" /\ resp[c].status = StatusNone
        /\ ret[d].kind = "tokens" /\ resp[d].status = 200
        /\ ret[d].at > 0

\* C3: every token getUserTokens hands out is valid at the moment of return
\* (its expiresAt is later than the current time); otherwise the call fails.
C3_ValidOrFailure ==
    \A c \in Calls : ret[c].kind = "tokens" => ret[c].expiresAt > ret[c].at

C5_TransientKeepsRecord ==
    [][ \A c \in Calls :
          (pc[c] = "responded" /\ Step(c) /\ IsTransient(resp[c]))
          => /\ tokens' = tokens
             /\ pc'[c] = "done" /\ ret'[c].kind = "null"
      ]_vars

\* a transient failure of one call, then a later call that refreshed with
\* the same refresh token and got the new token
C5_Witness ==
    \E c, d \in Calls :
        /\ pc[c] = "done" /\ resp[c].status = 500
        /\ ret[d].kind = "tokens" /\ resp[d].status = 200
        /\ ret[c].at < ret[d].at
        /\ rt[d] = rt[c] /\ Truthy(rt[c])
        /\ ret[d].accessToken = resp[d].access_token

\* C6: the outcome of a transient refresh failure differs, as a value, from
\* the outcome of an unauthenticated call (no record, or refresh rejected).
C6_TransientDistinguishable ==
    \A c, d \in Calls :
        (/\ pc[c] = "done" /\ IsTransient(resp[c])
         /\ pc[d] = "done"
         /\ (IsRejected(resp[d]) \/ resp[d].status = StatusNone)
         /\ ret[d].kind # "tokens")
        => Visible(ret[c]) # Visible(ret[d])

\* C7: a token body (a success answer carrying access_token) is stored as
\* access token, expiresAt = time of storing + expires_in * 1000, and the
\* answer's refresh token or else the one captured before the request; the
\* value refreshUserAccessToken returns is the access token read from the
\* record after that overwrite, which is the new one whenever no other
\* refresh answer of the session was handled in between.
C7_SuccessfulRefreshStored ==
    [][ /\ \A c \in Calls :
             (pc[c] = "responded" /\ Step(c) /\ IsTokenBody(resp[c]))
             => tokens' = << Rec(resp[c].access_token,
                                 IF Truthy(resp[c].refresh_token)
                                 THEN resp[c].refresh_token ELSE rt[c],
                                 now + resp[c].expires_in * 1000,
                                 resp[c].scope) >>
        /\ \A c \in Calls :
             (rret'[c] # rret[c])
             => LET read == IF impl = "redis" THEN snap[c] ELSE tokens IN
                read # NoRec /\ rret'[c] = read[1].accessToken
        /\ \A c \in Calls :
             (/\ pc'[c] \in {"refreshed", "final", "done"}
              /\ IsTokenBody(resp'[c])
              /\ \A d \in Calls \ {c} : resp'[d].status = StatusNone)
             => /\ rret'[c] = resp'[c].access_token
                /\ pc'[c] = "done" =>
                     /\ ret'[c].kind = "tokens"
                     /\ ret'[c].accessToken = resp'[c].access_token
                     /\ ret'[c].refreshToken =
                          (IF Truthy(resp'[c].refresh_token)
                           THEN resp'[c].refresh_token ELSE rt'[c])
      ]_vars

C7_Witness ==
    \E c \in Calls :
        /\ pc[c] = "done" /\ IsTokenBody(resp[c])
        /\ ~Truthy(resp[c].refresh_token)
        /\ ret[c].kind = "tokens"
        /\ ret[c].accessToken = resp[c].access_token
        /\ ret[c].refreshToken = rt[c]
        /\ tokens # NoRec /\ tokens[1].accessToken = resp[c].access_token

----------------------------------------------------------------------------
(* Client-credentials token: steps of one getClientCredentialsToken call *)

\* this.clientCredentialsToken && this.clientCredentialsTokenExpiresAt > Date.now()
CCUsable == Truthy(ccToken) /\ ccExpiresAt > now

CCFinish(c, k, t) ==
    /\ ccRet' = [ccRet EXCEPT ![c] = [kind |-> k, token |-> t]]
    /\ ccPc' = [ccPc EXCEPT ![c] = "done"]

InitCC ==
    /\ impl = "session"
    /\ now = 0
    /\ InitTokIdle
    /\ InitCCIdle
    /\ InitCacheIdle
    /\ InitApiIdle
    /\ InitMediaIdle

\* the call is entered: a cached unexpired token is returned at once,
\* otherwise the token request is sent
GetClientCredentialsToken(c) ==
    /\ ccPc[c] = "idle"
    /\ IF CCUsable
       THEN CCFinish(c, "token", ccToken)
       ELSE /\ ccPc' = [ccPc EXCEPT ![c] = "fetching"]
            /\ UNCHANGED ccRet
    /\ UNCHANGED <<ccToken, ccExpiresAt, ccResp, ccIssued>>
    /\ UNCHANGED <<impl, now, tokState, cacheState, apiState, mediaState>>

\* the identity provider answers the token request (or the network fails)
CCProviderRespond(c) ==
    /\ ccPc[c] = "fetching"
    /\ \E st \in CCStatuses :
         IF st = 200
         THEN /\ ccIssued < MaxIssued
              /\ ccIssued' = ccIssued + 1
              /\ \E e \in ExpiresInChoices :
                   ccResp' = [ccResp EXCEPT ![c] =
                                [status |-> st, access_token |-> ccIssued + 1,
                                 expires_in |-> e]]
         ELSE /\ ccResp' = [ccResp EXCEPT ![c] = [NoCCResp EXCEPT !.status = st]]
              /\ UNCHANGED ccIssued
    /\ ccPc' = [ccPc EXCEPT ![c] = "responded"]
    /\ UNCHANGED <<ccToken, ccExpiresAt, ccRet>>
    /\ UNCHANGED <<impl, now, tokState, cacheState, apiState, mediaState>>

\* the call resumes with the answer: throws, or stores and returns the token
CCHandleResponse(c) ==
    /\ ccPc[c] = "responded"
    /\ LET r == ccResp[c] IN
       IF r.status = StatusNetErr \/ ~ResponseOk(r)
       THEN CCFinish(c, "throw", Undef) /\ UNCHANGED <<ccToken, ccExpiresAt>>
       ELSE /\ ccToken' = r.access_token
            /\ ccExpiresAt' = now + r.expires_in * 1000
            /\ CCFinish(c, "token", r.access_token)
    /\ UNCHANGED <<ccResp, ccIssued>>
    /\ UNCHANGED <<impl, now, tokState, cacheState, apiState, mediaState>>

NextCC ==
    \/ Tick
    \/ \E c \in CCCalls : GetClientCredentialsToken(c)
    \/ \E c \in CCCalls : CCProviderRespond(c)
    \/ \E c \in CCCalls : CCHandleResponse(c)

SpecCC == InitCC /\ [][NextCC]_vars

\* C8: while no unexpired app-level token is cached, at most one token
\* request is in flight at the provider, and requests whose token requests
\* overlapped are answered with one and the same token value.
C8_SingleTokenRequest ==
    /\ Cardinality({c \in CCCalls : ccPc[c] = "fetching"}) <= 1
    /\ \A c, d \in CCCalls :
         (/\ ccPc[c] = "responded" /\ ccResp[c].status = 200
          /\ ccPc[d] = "responded" /\ ccResp[d].status = 200)
         => ccResp[c].access_token = ccResp[d].access_token

----------------------------------------------------------------------------
(* Read-through cache: JSON conversion of a payload object *)

\* the positions of FieldOrder whose field JSON.stringify writes: own keys
\* whose value is not undefined
WrittenFields(o) ==
    SelectSeq(FieldOrder, LAMBDA k : k \in DOMAIN o /\ o[k] # "undefined")

JSONstringify_UndefAsNull(o) ==
    LET ks == SelectSeq(FieldOrder, LAMBDA k : k \in DOMAIN o) IN
    [i \in 1..Len(ks) |->
        <<ks[i], IF o[ks[i]] = "undefined" THEN "null" ELSE o[ks[i]]>>]

\* JSON.stringify(o): the text, as its sequence of "key":value members
JSONstringify(o) ==
    LET ks == WrittenFields(o) IN [i \in 1..Len(ks) |-> <<ks[i], o[ks[i]]>>]

\* JSON.parse(text): the object with one key per member of the text
JSONparse(text) ==
    [k \in {text[i][1] : i \in 1..Len(text)} |->
        (CHOOSE m \in {text[i] : i \in 1..Len(text)} : m[1] = k)[2]]

\* freshData.success === false
IsDomainFailure(o) == "success" \in DOMAIN o /\ o["success"] = "false"

\* spotify.js writes whatever the fetcher returned; the copy in youtube.js
\* returns an explicit failure without writing it
SkipsWrite(o) == impl = "redis" /\ IsDomainFailure(o)

\* if (cachedData): Redis answered with a non-empty string
CacheHit(reply) == reply # << >>

----------------------------------------------------------------------------
(* Read-through cache: steps of one _getWithCache call *)

GFinish(c, k, v) ==
    /\ gret' = [gret EXCEPT ![c] = [kind |-> k, val |-> v]]
    /\ gpc' = [gpc EXCEPT ![c] = "done"]

\* fetcher() is invoked
InvokeFetcher(c, at) ==
    /\ gcalls' = [gcalls EXCEPT ![c] = @ + 1]
    /\ gpc' = [gpc EXCEPT ![c] = at]

InitCache ==
    /\ impl \in {"session", "redis"}
    /\ now = 0
    /\ InitTokIdle
    /\ InitCCIdle
    /\ InitCacheIdle
    /\ InitApiIdle
    /\ InitMediaIdle

\* _getWithCache(key, fetcher, ttl) is entered and issues redis.get, which
\* answers with the stored text, with nothing, or with an error
GetWithCache(c, k) ==
    /\ gpc[c] = "idle"
    /\ gkey' = [gkey EXCEPT ![c] = k]
    /\ gprior' = [gprior EXCEPT ![c] = {d \in Calls : gpc[d] = "done"}]
    /\ \E failed \in BOOLEAN :
         /\ gerr' = [gerr EXCEPT ![c] = failed]
         /\ greply' = [greply EXCEPT ![c] =
                         IF failed THEN [error |-> TRUE, data |-> << >>]
                         ELSE [error |-> FALSE,
                               data |-> IF cache[k] = << >> THEN << >>
                                        ELSE cache[k][1].value]]
    /\ gpc' = [gpc EXCEPT ![c] = "get"]
    /\ UNCHANGED <<cache, gfresh, gcalls, gret>>
    /\ UNCHANGED <<impl, now, tokState, ccState, apiState, mediaState>>

\* the call resumes with the reply of redis.get: a hit returns the parsed
\* text; a miss invokes the fetcher; a failed read invokes the fetcher too
\* (spotify.js from its catch block, the copy after logging)
GetReply(c) ==
    /\ gpc[c] = "get"
    /\ IF greply[c].error
       THEN /\ InvokeFetcher(c, IF impl = "redis" THEN "fetch" ELSE "fallback")
            /\ UNCHANGED gret
       ELSE IF CacheHit(greply[c].data)
       THEN /\ GFinish(c, "value", <<JSONparse(greply[c].data)>>)
            /\ UNCHANGED gcalls
       ELSE /\ InvokeFetcher(c, "fetch")
            /\ UNCHANGED gret
    /\ UNCHANGED <<cache, gkey, greply, gfresh, gerr, gprior>>
    /\ UNCHANGED <<impl, now, tokState, ccState, apiState, mediaState>>

\* the fetcher settles.  It threw: spotify.js lands in its catch block and
\* invokes the fetcher again, the copy lets the error through.  It resolved:
\* the value is written with redis.set (which may fail), unless the copy
\* sees an explicit failure and returns it unwritten.
FetchSettled(c) ==
    /\ gpc[c] = "fetch"
    /\ \/ /\ IF impl = "redis"
             THEN GFinish(c, "throw", << >>) /\ UNCHANGED gcalls
             ELSE InvokeFetcher(c, "fallback") /\ UNCHANGED gret
          /\ UNCHANGED <<cache, gfresh, greply, gerr>>
       \/ \E p \in Payloads :
            /\ gfresh' = [gfresh EXCEPT ![c] = <<p>>]
            /\ UNCHANGED gcalls
            /\ IF SkipsWrite(p)
               THEN GFinish(c, "value", <<p>>) /\ UNCHANGED <<cache, greply, gerr>>
               ELSE /\ gpc' = [gpc EXCEPT ![c] = "set"]
                    /\ UNCHANGED gret
                    /\ \E failed \in BOOLEAN :
                         /\ greply' = [greply EXCEPT ![c] =
                                         [error |-> failed, data |-> << >>]]
                         /\ gerr' = [gerr EXCEPT ![c] = @ \/ failed]
                         /\ cache' = IF failed THEN cache
                                     ELSE [cache EXCEPT ![gkey[c]] =
                                             <<[value |-> JSONstringify(p),
                                                ttl |-> DefaultTtl]>>]
    /\ UNCHANGED <<gkey, gprior>>
    /\ UNCHANGED <<impl, now, tokState, ccState, apiState, mediaState>>

\* the call resumes with the reply of redis.set: freshData is returned; a
\* failed write is logged by the copy, and sends spotify.js to its catch
\* block, which invokes the fetcher again
SetReply(c) ==
    /\ gpc[c] = "set"
    /\ IF greply[c].error /\ impl # "redis"
       THEN InvokeFetcher(c, "fallback") /\ UNCHANGED gret
       ELSE GFinish(c, "value", gfresh[c]) /\ UNCHANGED gcalls
    /\ UNCHANGED <<cache, gkey, greply, gfresh, gerr, gprior>>
    /\ UNCHANGED <<impl, now, tokState, ccState, apiState, mediaState>>

\* spotify.js: the fetcher invoked from the catch block settles, and what it
\* gives is what the call gives
FallbackSettled(c) ==
    /\ gpc[c] = "fallback"
    /\ \/ GFinish(c, "throw", << >>)
       \/ \E p \in Payloads : GFinish(c, "value", <<p>>)
    /\ UNCHANGED <<cache, gkey, greply, gfresh, gcalls, gerr, gprior>>
    /\ UNCHANGED <<impl, now, tokState, ccState, apiState, mediaState>>

NextCache ==
    \/ \E c \in Calls, k \in CacheKeys : GetWithCache(c, k)
    \/ \E c \in Calls : GetReply(c)
    \/ \E c \in Calls : FetchSettled(c)
    \/ \E c \in Calls : SetReply(c)
    \/ \E c \in Calls : FallbackSettled(c)

SpecCache == InitCache /\ [][NextCache]_vars

\* an object without its undefined-valued fields
DropUndefined(o) == [k \in {f \in DOMAIN o : o[f] # "undefined"} |-> o[k]]

\* d ran after c had returned, on the same key, the backend answered both
\* without error, c missed and its fetcher gave a successful payload, and no
\* third call used the key
InQuickSuccession(c, d) ==
    /\ c # d /\ gpc[c] = "done" /\ gpc[d] = "done"
    /\ c \in gprior[d]
    /\ gkey[c] = gkey[d]
    /\ \A e \in Calls \ {c, d} : gpc[e] = "idle" \/ gkey[e] # gkey[c]
    /\ ~gerr[c] /\ ~gerr[d]
    /\ gcalls[c] = 1 /\ gret[c].kind = "value"
    /\ ~IsDomainFailure(gret[c].val[1])

\* C9 (as stated): of two calls in quick succession with one key the fetcher
\* runs at most once and the second call returns a value identical to the
\* first call's value.
C9_SecondCallIdentical ==
    \A c, d \in Calls :
        InQuickSuccession(c, d)
        => /\ gcalls[c] + gcalls[d] <= 1
           /\ gret[d].kind = "value"
           /\ gret[d].val = gret[c].val

\* C9 (amended): ... and the second call returns the first call's value
\* without its undefined-valued fields.
C9_SecondCallRoundTrip ==
    \A c, d \in Calls :
        InQuickSuccession(c, d)
        => /\ gcalls[c] + gcalls[d] <= 1
           /\ gret[d].kind = "value"
           /\ gret[d].val = <<DropUndefined(gret[c].val[1])>>

C9_Witness ==
    \E c, d \in Calls :
        /\ InQuickSuccession(c, d)
        /\ gret[c].val[1]["image"] = "undefined"
        /\ gcalls[d] = 0
        /\ gret[d].val # gret[c].val

\* C10: the cache holds no entry whose value is an explicit domain failure
\* (success === false).
C10_NoFailureCached ==
    \A k \in CacheKeys :
        cache[k] # << >> => ~IsDomainFailure(JSONparse(cache[k][1].value))

\* C11: a failing cache backend degrades to direct computation: after a
\* failed read the fetcher is invoked, and a call whose fetcher had given a
\* value before the write attempt returns that value and no failure, and has
\* invoked the fetcher once, as a direct call would.
C11_DegradesGracefully ==
    \A c \in Calls :
        gpc[c] = "done" /\ gerr[c]
        => /\ gcalls[c] >= 1
           /\ gfresh[c] # << >>
              => /\ gret[c] = [kind |-> "value", val |-> gfresh[c]]
                 /\ gcalls[c] = 1

----------------------------------------------------------------------------
(* Cache keys of the cached operations *)

\* sessions a route can pass: none, one without tokens, and sessions that
\* hold the tokens of a user
NoSession == [id |-> "none", tokens |-> FALSE, user |-> "none"]
Sessions ==
    { NoSession,
      [id |-> "s0", tokens |-> FALSE, user |-> "none"],
      [id |-> "s1", tokens |-> TRUE, user |-> "u1"],
      [id |-> "s2", tokens |-> TRUE, user |-> "u2"] }

\* option objects: the default one, other pages, and one with a further
\* field that URLSearchParams passes upstream
PageOptions ==
    [limit : {"10", "20"}, offset : {"0"}]
        \cup [limit : {"20"}, offset : {"0"}, country : {"IT", "US"}]
RangeOptions ==
    [limit : {"10", "20"}, time_range : {"medium_term"}]
        \cup [limit : {"10"}, time_range : {"medium_term"}, offset : {"0", "10"}]
Ids == {"x", "y"}
PlaylistLimits == {"20", "50"}
PlaylistOffsets == {"0", "50"}

\* `${options.f}` in a template literal
Template(options, f) == IF f \in DOMAIN options THEN options[f] ELSE "undefined"

\* _makeApiRequest(session, ...): the user's token if session && session.tokens,
\* else the client-credentials token
CredentialOf(session) ==
    IF session.tokens THEN [kind |-> "user", session |-> session.id]
    ELSE [kind |-> "client", session |-> "none"]

Request(path, id, params) == [path |-> path, id |-> id, params |-> params]

Built(c, key, requests, cred) ==
    /\ cacheKey' = [cacheKey EXCEPT ![c] = key]
    /\ upstream' = [upstream EXCEPT ![c] = requests]
    /\ credential' = [credential EXCEPT ![c] = <<cred>>]
    /\ UNCHANGED <<impl, now, tokState, ccState, cacheState, reqState, searchState, relState, mediaState>>

getFeaturedPlaylists(c, session, options) ==
    /\ cacheKey[c] = NotBuilt
    /\ Built(c,
             <<"cache:featured-playlists", "limit=", Template(options, "limit"),
               "offset=", Template(options, "offset")>>,
             {Request("/browse/featured-playlists", "", options)},
             CredentialOf(session))

\* the user operations throw before building a key unless the session
\* gives a user profile
getUserTopArtists(c, session, options) ==
    /\ cacheKey[c] = NotBuilt
    /\ session.tokens
    /\ Built(c,
             <<"cache:user", session.user, "top-artists", "limit=",
               Template(options, "limit"), "range=",
               Template(options, "time_range")>>,
             {Request("/me/top/artists", "", options)},
             CredentialOf(session))

getUserTopTracks(c, session, options) ==
    /\ cacheKey[c] = NotBuilt
    /\ session.tokens
    /\ Built(c,
             <<"cache:user", session.user, "top-tracks", "limit=",
               Template(options, "limit"), "range=",
               Template(options, "time_range")>>,
             {Request("/me/top/tracks", "", options)},
             CredentialOf(session))

getArtistDetails(c, artistId) ==
    /\ cacheKey[c] = NotBuilt
    /\ Built(c,
             <<"cache:artist-details", artistId>>,
             { Request("/artists/", artistId, << >>),
               Request("/artists/top-tracks", artistId, [market |-> "IT"]),
               Request("/artists/albums", artistId,
                       [market |-> "IT", limit |-> "20",
                        include_groups |-> "album,single"]) },
             CredentialOf(NoSession))

getAlbumDetails(c, albumId) ==
    /\ cacheKey[c] = NotBuilt
    /\ Built(c,
             <<"cache:album-details", albumId>>,
             { Request("/albums/", albumId, << >>),
               Request("/albums/tracks", albumId,
                       [market |-> "IT", limit |-> "50"]) },
             CredentialOf(NoSession))

getPlaylistTracks(c, playlistId, limit, offset) ==
    /\ cacheKey[c] = NotBuilt
    /\ Built(c,
             <<"cache:playlist-tracks", playlistId, "limit=", limit,
               "offset=", offset>>,
             { Request("/playlists/tracks", playlistId,
                       [market |-> "IT", limit |-> limit, offset |-> offset,
                        fields |-> "items,total,limit,offset,next,previous"]) },
             CredentialOf(NoSession))

InitKeys ==
    /\ impl = "session"
    /\ now = 0
    /\ InitTokIdle
    /\ InitCCIdle
    /\ InitCacheIdle
    /\ InitApiIdle
    /\ InitMediaIdle

NextKeys ==
    \/ \E c \in KeyCalls, s \in Sessions, o \in PageOptions :
         getFeaturedPlaylists(c, s, o)
    \/ \E c \in KeyCalls, s \in Sessions, o \in RangeOptions :
         getUserTopArtists(c, s, o)
    \/ \E c \in KeyCalls, s \in Sessions, o \in RangeOptions :
         getUserTopTracks(c, s, o)
    \/ \E c \in KeyCalls, i \in Ids : getArtistDetails(c, i)
    \/ \E c \in KeyCalls, i \in Ids : getAlbumDetails(c, i)
    \/ \E c \in KeyCalls, i \in Ids, l \in PlaylistLimits, o \in PlaylistOffsets :
         getPlaylistTracks(c, i, l, o)

SpecKeys == InitKeys /\ [][NextKeys]_vars

\* C12: two calls of cached operations build the same cache key exactly
\* when they send the same upstream requests with the same kind of
\* credential, and two calls whose requests carry the tokens of different
\* sessions never share a key.
C12_KeysDescribeRequest ==
    \A c, d \in KeyCalls :
        cacheKey[c] # NotBuilt /\ cacheKey[d] # NotBuilt
        => /\ cacheKey[c] = cacheKey[d]
              <=> /\ upstream[c] = upstream[d]
                  /\ credential[c][1].kind = credential[d][1].kind
           /\ credential[c] # credential[d] => cacheKey[c] # cacheKey[d]

----------------------------------------------------------------------------
(* _makeApiRequest: from the upstream response to the outcome *)

ApiStatuses == {200, 201, 204, 400, 401, 404, 500}
StatusTexts == {"", "Text"}
ContentLengths == {"absent", "0", "12"}
Bodies ==
    {Unparsable}
        \cup [parsable : {TRUE}, errMessage : {"undefined", "e"},
              errStatus : {Undef, 403}, message : {"undefined", "m"}]
ApiResponses ==
    [status : ApiStatuses, statusText : StatusTexts,
     contentLength : ContentLengths, body : Bodies]

\* a || b on strings and on numbers
OrText(a, b) == IF a \notin {"undefined", ""} THEN a ELSE b
OrNumber(a, b) == IF a \notin {Undef, 0} THEN a ELSE b

\* `Errore API ${response.status}`, a non-empty text
ErroreAPI == "Errore API <status>"

\* response.json().catch(() => ({ message: response.statusText }))
ErrorBodyOf(r) ==
    IF r.body.parsable THEN r.body
    ELSE [Unparsable EXCEPT !.message = r.statusText]

\* the Error thrown for a response that is not ok
ApiError(r) ==
    LET errorBody == ErrorBodyOf(r) IN
    [kind |-> "error",
     status |-> OrNumber(errorBody.errStatus, r.status),
     message |-> OrText(errorBody.errMessage,
                        OrText(errorBody.message, ErroreAPI)),
     body |-> Unparsable]

IsEmptySuccess_Only204(r) == r.status = 204

\* response.status === 204 || response.headers.get('content-length') === '0'
IsEmptySuccess(r) == r.status = 204 \/ r.contentLength = "0"

InitRequest ==
    /\ impl \in {"session", "redis"}
    /\ now = 0
    /\ InitTokIdle
    /\ InitCCIdle
    /\ InitCacheIdle
    /\ InitApiIdle
    /\ InitMediaIdle

\* _makeApiRequest is entered and obtains an access token, or throws
\* because no client-credentials token can be had; then it sends the request
MakeApiRequest ==
    /\ apiPc = "idle"
    /\ \/ /\ apiPc' = "fetch"
          /\ UNCHANGED apiOutcome
       \/ /\ apiPc' = "done"
          /\ apiOutcome' = [ApiPending EXCEPT !.kind = "error",
                                              !.message = "Impossibile ottenere token"]
    /\ UNCHANGED apiResponse
    /\ UNCHANGED <<impl, now, tokState, ccState, cacheState, keyState, searchState, relState, mediaState>>

\* fetch resolves with a response: one that is not ok has its body read, an
\* empty success returns null, any other success has its body read
FetchResolves(r) ==
    /\ apiPc = "fetch"
    /\ apiResponse' = r
    /\ IF ~ResponseOk(r)
       THEN apiPc' = "errorBody" /\ UNCHANGED apiOutcome
       ELSE IF IsEmptySuccess(r)
       THEN /\ apiPc' = "done"
            /\ apiOutcome' = [ApiPending EXCEPT !.kind = "empty"]
       ELSE apiPc' = "body" /\ UNCHANGED apiOutcome
    /\ UNCHANGED <<impl, now, tokState, ccState, cacheState, keyState, searchState, relState, mediaState>>

\* the error body has been read, or could not be: the Error is thrown
ThrowApiError ==
    /\ apiPc = "errorBody"
    /\ apiPc' = "done"
    /\ apiOutcome' = ApiError(apiResponse)
    /\ UNCHANGED apiResponse
    /\ UNCHANGED <<impl, now, tokState, ccState, cacheState, keyState, searchState, relState, mediaState>>

\* return await response.json(): the parsed body, or the rejection of
\* response.json() when the body is not JSON
ReturnJson ==
    /\ apiPc = "body"
    /\ apiPc' = "done"
    /\ apiOutcome' =
         IF apiResponse.body.parsable
         THEN [ApiPending EXCEPT !.kind = "json", !.body = apiResponse.body]
         ELSE [ApiPending EXCEPT !.kind = "error", !.message = "SyntaxError"]
    /\ UNCHANGED apiResponse
    /\ UNCHANGED <<impl, now, tokState, ccState, cacheState, keyState, searchState, relState, mediaState>>

NextRequest ==
    \/ MakeApiRequest
    \/ \E r \in ApiResponses : FetchResolves(r)
    \/ ThrowApiError
    \/ ReturnJson

SpecRequest == InitRequest /\ [][NextRequest]_vars

Received == apiPc = "done" /\ apiResponse # NoApiResponse

----------------------------------------------------------------------------
(* Strings, as sequences of characters, and calculateRelevance *)

\* String.prototype.toLowerCase on the characters that occur
LowerChar(ch) ==
    CASE ch = "L" -> "l" [] ch = "H" -> "h" [] ch = "I" -> "i"
      [] ch = "Y" -> "y" [] ch = "A" -> "a" [] ch = "Q" -> "q"
      [] ch = "N" -> "n" [] ch = "E" -> "e" [] ch = "F" -> "f"
      [] ch = "T" -> "t" [] ch = "C" -> "c"
      [] OTHER -> ch
toLowerCase(str) == [i \in 1..Len(str) |-> LowerChar(str[i])]

\* String.prototype.trim
trim(str) ==
    LET inked == {i \in 1..Len(str) : str[i] # " "} IN
    IF inked = {} THEN << >>
    ELSE SubSeq(str, CHOOSE i \in inked : \A j \in inked : i <= j,
                     CHOOSE i \in inked : \A j \in inked : i >= j)

startsWith(str, q) == Len(q) <= Len(str) /\ SubSeq(str, 1, Len(q)) = q

includes(str, q) ==
    \E i \in 1..(Len(str) - Len(q) + 1) : SubSeq(str, i, i + Len(q) - 1) = q

\* str.split(' ').filter(word => word.length > 0), as the set of the
\* positions <<first, last>> of the words
WordsAt(str) ==
    { <<i, j>> \in (1..Len(str)) \X (1..Len(str)) :
        /\ i <= j
        /\ \A k \in i..j : str[k] # " "
        /\ i = 1 \/ str[i - 1] = " "
        /\ j = Len(str) \/ str[j + 1] = " " }
Word(str, at) == SubSeq(str, at[1], at[2])

WholeBonus_NoExact(nameLower, queryLower) ==
    IF startsWith(nameLower, queryLower) THEN 100
    ELSE IF includes(nameLower, queryLower) THEN 50
    ELSE 0

\* the three-way bonus of the whole name: 1000, 100 or 50 (0 otherwise)
WholeBonus(nameLower, queryLower) ==
    IF nameLower = queryLower THEN 1000
    ELSE IF startsWith(nameLower, queryLower) THEN 100
    ELSE IF includes(nameLower, queryLower) THEN 50
    ELSE 0

\* the nested forEach over queryWords and nameWords: 25 for every pair of
\* equal words, 10 for every other pair of which one contains the other
WordBonus(nameLower, queryLower) ==
    LET pairs == WordsAt(queryLower) \X WordsAt(nameLower)
        qw(p) == Word(queryLower, p[1])
        nw(p) == Word(nameLower, p[2])
    IN 25 * Cardinality({p \in pairs : nw(p) = qw(p)})
       + 10 * Cardinality({p \in pairs :
                             /\ nw(p) # qw(p)
                             /\ includes(nw(p), qw(p)) \/ includes(qw(p), nw(p))})

TypeBonus(type) ==
    CASE type = "track" -> 5 [] type = "artist" -> 3
      [] type = "album" -> 2 [] type = "playlist" -> 1 [] OTHER -> 0

\* calculateRelevance(name, type), with queryLower of the enclosing call
calculateRelevance(name, type, queryLower) ==
    LET nameLower == toLowerCase(name) IN
    WholeBonus(nameLower, queryLower) + WordBonus(nameLower, queryLower)
        + TypeBonus(type)

----------------------------------------------------------------------------
(* searchMultiType: raw hits and their processing *)

Love == <<"L", "o", "v", "e">>
loveLower == <<"l", "o", "v", "e">>
Lovely == <<"L", "o", "v", "e", "l", "y">>
Hate == <<"H", "a", "t", "e">>
Adele == <<"A", "d", "e", "l", "e">>
StandardMs == 210000

\* raw track hits: name, name of artists[0], popularity, duration_ms
RawTracks ==
    { [id |-> "t1", name |-> Love, artist |-> Adele, popularity |-> 80,
       duration_ms |-> 200000],
      [id |-> "t2", name |-> loveLower, artist |-> Adele, popularity |-> 95,
       duration_ms |-> 295000],
      [id |-> "t3", name |-> Love, artist |-> Adele, popularity |-> 95,
       duration_ms |-> 220000],
      [id |-> "t4", name |-> Hate, artist |-> Love, popularity |-> 80,
       duration_ms |-> 200000] }
RawArtists ==
    { [id |-> "a1", name |-> Love, popularity |-> 50, followers |-> 10],
      [id |-> "a2", name |-> Love, popularity |-> 50, followers |-> 20],
      [id |-> "a3", name |-> Lovely, popularity |-> 60, followers |-> 5] }
RawAlbums ==
    { [id |-> "b1", name |-> Love, artist |-> Adele],
      [id |-> "b2", name |-> Hate, artist |-> Love] }
RawPlaylists ==
    { [id |-> "p1", name |-> Lovely, description |-> << >>],
      [id |-> "p2", name |-> Hate, description |-> loveLower] }

\* the lists of at most n different members of S
ListsOf(S, n) ==
    UNION { { l \in [1..k -> S] : \A i, j \in 1..k : l[i] = l[j] => i = j }
            : k \in 0..n }

\* one category of the response: absent, or its items and its total
Category(lists) ==
    {<< >>} \cup { <<[items |-> l, total |-> 10 * Len(l)]>> : l \in lists }

SearchData ==
    [tracks : Category(ListsOf(RawTracks, 3)),
     artists : Category(ListsOf(RawArtists, 2)),
     albums : Category(ListsOf(RawAlbums, 1)),
     playlists : Category(ListsOf(RawPlaylists, 1))]

SearchQueries == {loveLower, <<" ">> \o Love}
SearchLimits == {1, 2, 5, 60}

\* data.x && data.x.items: the items of a category, none when it is absent
Items(cat) == IF cat = << >> THEN << >> ELSE cat[1].items
\* data.x?.total || 0
Total(cat) == IF cat = << >> THEN 0 ELSE cat[1].total

Abs(n) == IF n < 0 THEN -n ELSE n

\* `${track.name.toLowerCase()}|${track.artists[0]?.name.toLowerCase() || ''}`;
\* names are taken not to contain the separator
trackKey(track) == <<toLowerCase(track.name), toLowerCase(track.artist)>>

Better_KeepFirst(prev, current) == prev

\* the callback of trackGroup.reduce
Better(prev, current) ==
    IF current.popularity > prev.popularity THEN current
    ELSE IF /\ current.popularity = prev.popularity
            /\ Abs(current.duration_ms - StandardMs)
                 < Abs(prev.duration_ms - StandardMs)
    THEN current
    ELSE prev

RECURSIVE Reduce(_, _)
Reduce(prev, rest) ==
    IF rest = << >> THEN prev
    ELSE Reduce(Better(prev, Head(rest)), Tail(rest))

bestTrack(trackGroup) == Reduce(Head(trackGroup), Tail(trackGroup))

\* groupedTracks.values(): the groups in the order in which their keys
\* first occur
groupedTracks(items) ==
    LET firsts == SelectSeq([i \in 1..Len(items) |-> i],
                            LAMBDA i : \A j \in 1..(i - 1) :
                                trackKey(items[j]) # trackKey(items[i]))
    IN [g \in 1..Len(firsts) |->
          SelectSeq(items,
                    LAMBDA t : trackKey(t) = trackKey(items[firsts[g]]))]

\* relevance is kept in tenths, so that the factors 0.5, 0.3 and 0.2 stay
\* whole
TrackEntry(best, q) ==
    [type |-> "track", name |-> best.name, artist |-> best.artist,
     duration |-> best.duration_ms, spotify_id |-> best.id,
     relevance |-> 10 * calculateRelevance(best.name, "track", q)
                     + 5 * calculateRelevance(best.artist, "artist", q),
     popularity |-> best.popularity]

ArtistEntry(artist, q) ==
    [type |-> "artist", name |-> artist.name, spotify_id |-> artist.id,
     followers |-> artist.followers, popularity |-> artist.popularity,
     relevance |-> 10 * calculateRelevance(artist.name, "artist", q)]

AlbumEntry(album, q) ==
    [type |-> "album", name |-> album.name, artist |-> album.artist,
     spotify_id |-> album.id,
     relevance |-> 10 * calculateRelevance(album.name, "album", q)
                     + 3 * calculateRelevance(album.artist, "artist", q)]

PlaylistEntry(playlist, q) ==
    [type |-> "playlist", name |-> playlist.name,
     description |-> playlist.description, spotify_id |-> playlist.id,
     relevance |-> 10 * calculateRelevance(playlist.name, "playlist", q)
                     + 2 * calculateRelevance(playlist.description,
                                              "playlist", q)]

\* the comparator of the per-category sort
CompareInCategory(a, b) ==
    IF b.relevance # a.relevance THEN b.relevance - a.relevance
    ELSE IF "popularity" \in DOMAIN a /\ "popularity" \in DOMAIN b
    THEN b.popularity - a.popularity
    ELSE IF "followers" \in DOMAIN a /\ "followers" \in DOMAIN b
    THEN b.followers - a.followers
    ELSE 0

\* the comparator of the final sort
CompareOverall(a, b) == b.relevance - a.relevance

Compare(how, a, b) ==
    IF how = "category" THEN CompareInCategory(a, b) ELSE CompareOverall(a, b)

\* Array.prototype.sort, which is stable: every item goes before the first
\* item the comparator puts it strictly before
InsertSorted(how, sorted, x) ==
    LET after == {k \in 1..Len(sorted) : Compare(how, x, sorted[k]) < 0}
        at == IF after = {} THEN Len(sorted) + 1
              ELSE CHOOSE k \in after : \A m \in after : k <= m
    IN SubSeq(sorted, 1, at - 1) \o <<x>> \o SubSeq(sorted, at, Len(sorted))

RECURSIVE SortFrom(_, _, _)
SortFrom(how, sorted, rest) ==
    IF rest = << >> THEN sorted
    ELSE SortFrom(how, InsertSorted(how, sorted, Head(rest)), Tail(rest))

Sort(how, list) == SortFrom(how, << >>, list)

maxPerCategory_Floor(limit) == limit \div 4

\* Math.ceil(limit / 4)
maxPerCategory(limit) == (limit + 3) \div 4

\* the loop that pushes the i-th item of every category that has one
RECURSIVE Interleave(_, _, _)
Interleave(i, max, byType) ==
    IF i > max THEN << >>
    ELSE LET pick(list) == IF i <= Len(list) THEN <<list[i]>> ELSE << >>
         IN pick(byType.tracks) \o pick(byType.artists)
              \o pick(byType.albums) \o pick(byType.playlists)
              \o Interleave(i + 1, max, byType)

slice(list, n) == SubSeq(list, 1, IF n < Len(list) THEN n ELSE Len(list))

\* results after the four categories are processed and sorted
ByType(data, q) ==
    LET groups == groupedTracks(Items(data.tracks)) IN
    [tracks |-> Sort("category",
                     [g \in 1..Len(groups) |->
                        TrackEntry(bestTrack(groups[g]), q)]),
     artists |-> Sort("category",
                      [i \in 1..Len(Items(data.artists)) |->
                         ArtistEntry(Items(data.artists)[i], q)]),
     albums |-> Sort("category",
                     [i \in 1..Len(Items(data.albums)) |->
                        AlbumEntry(Items(data.albums)[i], q)]),
     playlists |-> Sort("category",
                        [i \in 1..Len(Items(data.playlists)) |->
                           PlaylistEntry(Items(data.playlists)[i], q)])]

\* Math.min(limit, 50)
searchLimit(limit) == IF limit < 50 THEN limit ELSE 50

----------------------------------------------------------------------------
(* searchMultiType: the call *)

\* the copy in youtube.js has the same searchMultiType
InitSearch ==
    /\ impl = "session"
    /\ now = 0
    /\ InitTokIdle
    /\ InitCCIdle
    /\ InitCacheIdle
    /\ InitApiIdle
    /\ InitMediaIdle

\* searchMultiType(query, limit) is entered and sends its one request
SearchMultiType(query, limit) ==
    /\ srPc = "idle"
    /\ srQuery' = query
    /\ srLimit' = limit
    /\ srRequests' = Append(srRequests,
                            [q |-> query,
                             type |-> {"track", "artist", "album", "playlist"},
                             limit |-> searchLimit(limit)])
    /\ srPc' = "request"
    /\ UNCHANGED <<srData, srResult>>
    /\ UNCHANGED <<impl, now, tokState, ccState, cacheState, keyState, reqState, relState, mediaState>>

\* _makeApiRequest resolves with data: the categories are processed and
\* sorted, the best of each are interleaved, sorted and cut to limit
SearchResolves(data) ==
    /\ srPc = "request"
    /\ srData' = <<data>>
    /\ srResult' =
         LET results == ByType(data, trim(toLowerCase(srQuery)))
             allResults ==
                 Sort("overall",
                      Interleave(1, maxPerCategory(srLimit), results))
         IN [success |-> "true",
             results |-> slice(allResults, srLimit),
             by_type |-> results,
             total_found |->
                 [tracks |-> Total(data.tracks),
                  artists |-> Total(data.artists),
                  albums |-> Total(data.albums),
                  playlists |-> Total(data.playlists)]]
    /\ srPc' = "done"
    /\ UNCHANGED <<srQuery, srLimit, srRequests>>
    /\ UNCHANGED <<impl, now, tokState, ccState, cacheState, keyState, reqState, relState, mediaState>>

\* _makeApiRequest resolves with null (a success without content): reading
\* data.tracks throws a TypeError and the catch block returns a failure
SearchResolvesEmpty ==
    /\ srPc = "request"
    /\ srData' = <<NullData>>
    /\ srResult' = [success |-> "false"]
    /\ srPc' = "done"
    /\ UNCHANGED <<srQuery, srLimit, srRequests>>
    /\ UNCHANGED <<impl, now, tokState, ccState, cacheState, keyState, reqState, relState, mediaState>>

\* _makeApiRequest throws: the catch block returns a failure
SearchRejects ==
    /\ srPc = "request"
    /\ srResult' = [success |-> "false"]
    /\ srPc' = "done"
    /\ UNCHANGED <<srQuery, srLimit, srRequests, srData>>
    /\ UNCHANGED <<impl, now, tokState, ccState, cacheState, keyState, reqState, relState, mediaState>>

NextSearch ==
    \/ \E q \in SearchQueries, l \in SearchLimits : SearchMultiType(q, l)
    \/ \E d \in SearchData : SearchResolves(d)
    \/ SearchResolvesEmpty
    \/ SearchRejects

SpecSearch == InitSearch /\ [][NextSearch]_vars

----------------------------------------------------------------------------
(* searchMultiType: properties *)

Succeeded == srPc = "done" /\ srResult.success = "true"
RawHits == Items(srData[1].tracks)
EntryKey(e) == <<toLowerCase(e.name), toLowerCase(e.artist)>>
Group(key) == {i \in 1..Len(RawHits) : trackKey(RawHits[i]) = key}
Distance(hit) == Abs(hit.duration_ms - StandardMs)

\* the raw hit an entry of the tracks list was made from, is in the entry's
\* group, has the group's highest popularity, and is closest to 210000 ms
\* among the hits of that popularity
Representative(e, i) ==
    LET hit == RawHits[i] group == Group(EntryKey(e)) IN
    /\ hit.id = e.spotify_id
    /\ i \in group
    /\ \A j \in group : RawHits[j].popularity <= hit.popularity
    /\ \A j \in group :
         RawHits[j].popularity = hit.popularity
         => Distance(hit) <= Distance(RawHits[j])

----------------------------------------------------------------------------
(* calculateRelevance on pairs of names *)

MaxQueryWords == 6
MaxNameWords == 13

La == <<"L", "a">>
ILoveYou == <<"I", " ">> \o Love \o <<" ", "Y", "o", "u">>

\* the word repeated k times, with single spaces between
RECURSIVE Repeat(_, _)
Repeat(word, k) ==
    IF k <= 1 THEN word ELSE word \o <<" ">> \o Repeat(word, k - 1)

RelQueries ==
    {loveLower, <<" ">> \o Love} \cup {Repeat(La, n) : n \in 1..MaxQueryWords}
RelNames ==
    {Love, loveLower, ILoveYou, Lovely, Hate}
        \cup {Repeat(La, m) : m \in 1..MaxNameWords}
RelTypes == {"track", "artist", "album", "playlist"}

\* const queryLower = query.toLowerCase().trim()
queryLowerOf(query) == trim(toLowerCase(query))

InitRelevance ==
    /\ impl = "session"
    /\ now = 0
    /\ InitTokIdle
    /\ InitCCIdle
    /\ InitCacheIdle
    /\ InitKeyIdle
    /\ InitReqIdle
    /\ InitSearchIdle
    /\ InitMediaIdle
    /\ relQuery \in RelQueries
    /\ relType \in RelTypes
    /\ relName \in [Slots -> RelNames]
    /\ relScore = [x \in Slots |-> Undef]

\* calculateRelevance(name, type) is applied to the name of a slot
CalculateRelevance(x) ==
    /\ relScore[x] = Undef
    /\ relScore' = [relScore EXCEPT ![x] =
                      calculateRelevance(relName[x], relType,
                                         queryLowerOf(relQuery))]
    /\ UNCHANGED <<relQuery, relType, relName>>
    /\ UNCHANGED <<impl, now, tokState, ccState, cacheState, keyState, reqState, searchState, mediaState>>

NextRelevance == \E x \in Slots : CalculateRelevance(x)

SpecRelevance == InitRelevance /\ [][NextRelevance]_vars

Scored == \A x \in Slots : relScore[x] # Undef
NameLower(x) == toLowerCase(relName[x])
IsExact(x) == NameLower(x) = queryLowerOf(relQuery)
IsPartial(x) == ~IsExact(x) /\ includes(NameLower(x), queryLowerOf(relQuery))
IsUnrelated(x) ==
    /\ ~includes(NameLower(x), queryLowerOf(relQuery))
    /\ WordBonus(NameLower(x), queryLowerOf(relQuery)) = 0
WordCount(str) == Cardinality(WordsAt(str))

----------------------------------------------------------------------------
(* searchMultiType: order and size of the lists returned *)

Has(item, field) == field \in DOMAIN item

\* item a may stand before item b in a per-category list
InOrder(a, b) ==
    /\ a.relevance >= b.relevance
    /\ a.relevance = b.relevance /\ Has(a, "popularity") /\ Has(b, "popularity")
       => a.popularity >= b.popularity
    /\ /\ a.relevance = b.relevance
       /\ Has(a, "popularity") /\ Has(b, "popularity")
          => a.popularity = b.popularity
       /\ Has(a, "followers") /\ Has(b, "followers")
       => a.followers >= b.followers

\* C16: every per-category list is in descending relevance order, items of
\* equal relevance in descending popularity order, and items of equal
\* relevance and popularity that carry a follower count in descending
\* follower-count order.
C16_CategoryListsSorted ==
    Succeeded =>
        \A key \in {"tracks", "artists", "albums", "playlists"} :
            LET list == srResult.by_type[key] IN
            \A i, j \in 1..Len(list) : i < j => InOrder(list[i], list[j])

CategoryKeys == {"tracks", "artists", "albums", "playlists"}
Least(a, b) == IF a < b THEN a ELSE b
\* the least whole number that is at least limit / 4
Quarter(limit) == CHOOSE k \in 0..limit : 4 * k >= limit /\ 4 * (k - 1) < limit
Offered(key) == Least(Quarter(srLimit), Len(srResult.by_type[key]))

\* C17: the combined list has min(limit, sum over the categories of
\* min(ceil(limit/4), category size)) items, is in descending relevance
\* order, and holds only items among the first ceil(limit/4) of their
\* category's sorted list.
C17_CombinedList ==
    Succeeded =>
        LET results == srResult.results IN
        /\ Len(results)
             = Least(srLimit, Offered("tracks") + Offered("artists")
                                + Offered("albums") + Offered("playlists"))
        /\ \A i, j \in 1..Len(results) :
             i < j => results[i].relevance >= results[j].relevance
        /\ \A i \in 1..Len(results) :
             \E key \in CategoryKeys :
                \E k \in 1..Offered(key) :
                    srResult.by_type[key][k] = results[i]

\* limit 5: two items of two categories and one of the others are offered,
\* and the list is cut to five
C17_Witness ==
    /\ Succeeded
    /\ srLimit = 5
    /\ Len(srResult.by_type.tracks) = 2
    /\ Len(srResult.by_type.artists) = 2
    /\ Len(srResult.by_type.albums) = 1
    /\ Len(srResult.by_type.playlists) = 1
    /\ Len(srResult.results) = 5

\* the upstream request succeeded and the call has returned
UpstreamSucceeded == srPc = "done" /\ srData # NoData
RawIds(list) == {list[i].id : i \in 1..Len(list)}
SpotifyIds(list) == {list[i].spotify_id : i \in 1..Len(list)}
Provided(key) == IF srData[1] = NullData THEN << >> ELSE srData[1][key]

\* C18: after a successful upstream response the call returns success with
\* the complete per-category lists and the provider's totals; a category
\* absent from the response has an empty list and the total 0.
C18_SuccessWithCompleteLists ==
    UpstreamSucceeded =>
        /\ srResult.success = "true"
        /\ \A key \in CategoryKeys :
             /\ srResult.total_found[key] = Total(Provided(key))
             /\ Provided(key) = << >>
                => srResult.by_type[key] = << >> /\ srResult.total_found[key] = 0
        /\ \A key \in CategoryKeys \ {"tracks"} :
             /\ Len(srResult.by_type[key]) = Len(Items(Provided(key)))
             /\ SpotifyIds(srResult.by_type[key]) = RawIds(Items(Provided(key)))
        /\ Len(srResult.by_type.tracks)
             = Cardinality({trackKey(RawHits[i]) : i \in 1..Len(RawHits)})

\* C19: the call sends exactly one upstream request, for all four
\* categories, whose per-category limit is at most 50 and is the one it
\* would send for any other value of the limit argument.
C19_OneRequestFixedLimit ==
    srPc # "idle" =>
        /\ Len(srRequests) = 1
        /\ srRequests[1].type = {"track", "artist", "album", "playlist"}
        /\ srRequests[1].limit <= 50
        /\ \A l \in SearchLimits : srRequests[1].limit = searchLimit(l)

----------------------------------------------------------------------------
(* searchAndDownload: choice of the candidate *)

NUM_VIDEOS_TO_SEARCH == 3

\* video.duration, in seconds
Durations == {24, 25, 35, 36, 111, 112, 170, 184, 185, 190, 215, 216}
\* targetDurationMs: none (0 or undefined), and targets whose tenth is
\* below 5 s, between 5 s and 15 s, and above 15 s
Targets == {0, 30000, 123456, 200000}

\* lengths are kept in ten-thousandths of a second, so that
\* targetDurationMs / 1000 and targetSeconds * 0.10 stay whole
PerSecond == 10000
targetSeconds(targetDurationMs) == targetDurationMs * 10

Max(a, b) == IF a > b THEN a ELSE b

tolerance_NoCeiling(targetDurationMs) ==
    Max(5 * PerSecond, targetSeconds(targetDurationMs) \div 10)

\* Math.max(5, Math.min(15, targetSeconds * 0.10))
tolerance(targetDurationMs) ==
    Max(5 * PerSecond,
        Least(15 * PerSecond, targetSeconds(targetDurationMs) \div 10))

minDuration(targetDurationMs) ==
    targetSeconds(targetDurationMs) - tolerance(targetDurationMs)
maxDuration(targetDurationMs) ==
    targetSeconds(targetDurationMs) + tolerance(targetDurationMs)

\* video.duration >= minDuration && video.duration <= maxDuration
Accepts(targetDurationMs, video) ==
    /\ video.duration * PerSecond >= minDuration(targetDurationMs)
    /\ video.duration * PerSecond <= maxDuration(targetDurationMs)

FirstAccepted_Closest(targetDurationMs, videos) ==
    LET ok == {i \in 1..Len(videos) : Accepts(targetDurationMs, videos[i])}
        off(i) == Abs(videos[i].duration * PerSecond
                        - targetSeconds(targetDurationMs))
    IN IF ok = {} THEN 0
       ELSE CHOOSE i \in ok :
              \A j \in ok : off(i) < off(j) \/ (off(i) = off(j) /\ i <= j)

FirstAccepted_OrFirst(targetDurationMs, videos) ==
    LET ok == {i \in 1..Len(videos) : Accepts(targetDurationMs, videos[i])} IN
    IF ok = {} THEN 1 ELSE CHOOSE i \in ok : \A j \in ok : i <= j

\* the for loop with its break: the position of the first video accepted, 0
\* when there is none
FirstAccepted(targetDurationMs, videos) ==
    LET ok == {i \in 1..Len(videos) : Accepts(targetDurationMs, videos[i])} IN
    IF ok = {} THEN 0 ELSE CHOOSE i \in ok : \A j \in ok : i <= j

\* a number that is NaN
NotANumber == -2
\* parseInt(duration_ms, 10) of the query parameter
DurationParams == Targets \cup {NotANumber}

\* if (targetDurationMs): neither undefined, nor NaN, nor 0
HasTarget(targetDurationMs) == targetDurationMs \notin {Undef, NotANumber, 0}

\* the parsed lines of the search output: candidates with url and duration,
\* one without webpage_url, one whose duration is no number (Undef), and a
\* line that is blank or no JSON
NullLine == [url |-> "null", duration |-> Undef]
RawVideos ==
    [url : {"u"}, duration : Durations]
        \cup { [url |-> "", duration |-> 190],
               [url |-> "u", duration |-> Undef],
               NullLine }
Lines == UNION { [1..k -> RawVideos] : k \in 0..NUM_VIDEOS_TO_SEARCH }

\* video && video.webpage_url && typeof video.duration === 'number'
IsValid(video) ==
    /\ video # NullLine
    /\ video.url # ""
    /\ video.duration # Undef

Digit(n) == CASE n = 1 -> "1" [] n = 2 -> "2" [] n = 3 -> "3" [] OTHER -> "0"

Diagnostic ==
    <<"C", "o", "m", "m", "a", "n", "d", " ", "f", "a", "i", "l", "e", "d">>

\* the texts of the failures searchAndDownload throws
MsgSearchFatal ==
    <<"E", "r", "r", "o", "r", "e", " ", "y", "t", "-", "d", "l", "p", " ",
      "f", "a", "t", "a", "l", "e", " ", "d", "u", "r", "a", "n", "t", "e",
      " ", "r", "i", "c", "e", "r", "c", "a", " ", "m", "e", "t", "a", "d",
      "a", "t", "i", ":", " ">>

MsgNoValid ==
    <<"N", "e", "s", "s", "u", "n", " ", "v", "i", "d", "e", "o", " ", "v",
      "a", "l", "i", "d", "o", " ", "t", "r", "o", "v", "a", "t", "o", " ",
      "n", "e", "l", "l", "a", " ", "r", "i", "c", "e", "r", "c", "a", " ",
      "i", "n", "i", "z", "i", "a", "l", "e", " ", "s", "u", " ", "Y", "o",
      "u", "T", "u", "b", "e", ".">>

MsgNoneInWindowHead ==
    <<"N", "e", "s", "s", "u", "n", " ", "v", "i", "d", "e", "o", " ", "t",
      "r", "o", "v", "a", "t", "o", " ", "t", "r", "a", " ", "i", " ", "p",
      "r", "i", "m", "i", " ">>

MsgNoneInWindowTail ==
    <<" ", "r", "i", "s", "u", "l", "t", "a", "t", "i", " ", "c", "h", "e",
      " ", "s", "o", "d", "d", "i", "s", "f", "a", " ", "i", "l", " ", "c",
      "r", "i", "t", "e", "r", "i", "o", " ", "d", "i", " ", "d", "u", "r",
      "a", "t", "a", ".">>

MsgDownloadFailed ==
    <<"E", "r", "r", "o", "r", "e", " ", "y", "t", "-", "d", "l", "p", " ",
      "d", "u", "r", "a", "n", "t", "e", " ", "d", "o", "w", "n", "l", "o",
      "a", "d", " ", "e", " ", "f", "i", "l", "e", " ", "d", "i", " ", "o",
      "u", "t", "p", "u", "t", " ", "n", "o", "n", " ", "t", "r", "o", "v",
      "a", "t", "o", ":", " ">>

MsgFileMissing ==
    <<"F", "i", "l", "e", " ", "n", "o", "n", " ", "t", "r", "o", "v", "a",
      "t", "o", " ", "d", "o", "p", "o", " ", "d", "o", "w", "n", "l", "o",
      "a", "d", " ", "d", "e", "l", " ", "v", "i", "d", "e", "o", " ", "s",
      "e", "l", "e", "z", "i", "o", "n", "a", "t", "o", " ", "(", "y", "t",
      "-", "d", "l", "p", " ", "n", "o", "n", " ", "h", "a", " ", "l", "a",
      "n", "c", "i", "a", "t", "o", " ", "e", "c", "c", "e", "z", "i", "o",
      "n", "i", " ", "o", " ", "i", "l", " ", "f", "i", "l", "e", " ", "n",
      "o", "n", " ", "è", " ", "s", "t", "a", "t", "o", " ", "c", "r", "e",
      "a", "t", "o", ")", ".">>

\* the texts the route looks for
NonTrovato ==
    <<"n", "o", "n", " ", "t", "r", "o", "v", "a", "t", "o">>

Filtro ==
    <<"f", "i", "l", "t", "r", "o">>

NoVideoFound ==
    <<"n", "o", " ", "v", "i", "d", "e", "o", " ", "f", "o", "u", "n", "d">>

NessunVideoTrovato ==
    <<"n", "e", "s", "s", "u", "n", " ", "v", "i", "d", "e", "o", " ", "t",
      "r", "o", "v", "a", "t", "o">>


MsgNoneInWindow(n) == MsgNoneInWindowHead \o <<Digit(n)>> \o MsgNoneInWindowTail

MessageOf(kind, videos) ==
    CASE kind = "searchFailed" -> MsgSearchFatal \o Diagnostic
      [] kind = "noValidVideo" -> MsgNoValid
      [] kind = "noneInWindow" -> MsgNoneInWindow(Len(videos))
      [] kind = "downloadFailed" -> MsgDownloadFailed \o Diagnostic
      [] kind = "fileMissing" -> MsgFileMissing
      [] OTHER -> << >>

Thrown == {"searchFailed", "noValidVideo", "noneInWindow", "downloadFailed",
           "fileMissing"}

\* the status a route sends when searchAndDownload throws: index.js looks
\* for four texts in the lowercased message, the router always sends 500
StatusOfThrown(how, message) ==
    IF how = "redis"
    THEN IF \/ includes(toLowerCase(message), NonTrovato)
            \/ includes(toLowerCase(message), Filtro)
            \/ includes(toLowerCase(message), NoVideoFound)
            \/ includes(toLowerCase(message), NessunVideoTrovato)
         THEN 404 ELSE 500
    ELSE 500

\* searchAndDownload settles, and the route that awaited it answers
Settle(r, kind, index) ==
    LET message == MessageOf(kind, mdVideos'[r]) IN
    /\ mdOutcome' = [mdOutcome EXCEPT ![r] =
                       [kind |-> kind, index |-> index, message |-> message]]
    /\ mdResponse' = [mdResponse EXCEPT ![r] =
                        IF kind \in Thrown THEN StatusOfThrown(impl, message)
                        ELSE 200]
    /\ mdPc' = [mdPc EXCEPT ![r] = "done"]

\* the output file may be on disk from an earlier request
InitMedia ==
    /\ impl \in {"session", "redis"}
    /\ now = 0
    /\ InitTokIdle
    /\ InitCCIdle
    /\ InitCacheIdle
    /\ InitApiIdle
    /\ InitMediaStart
    /\ file \in BOOLEAN

\* GET /stream/:spotify_id: index.js rejects a duration_ms that is no
\* number (the router does not); a file on disk is streamed; otherwise
\* searchAndDownload is called and starts the metadata search
Stream(r, parsedDurationMs) ==
    /\ mdPc[r] = "idle"
    /\ mdTarget' = [mdTarget EXCEPT ![r] = parsedDurationMs]
    /\ IF impl = "redis" /\ parsedDurationMs = NotANumber
       THEN /\ mdResponse' = [mdResponse EXCEPT ![r] = 400]
            /\ mdPc' = [mdPc EXCEPT ![r] = "done"]
       ELSE IF file
       THEN /\ mdResponse' = [mdResponse EXCEPT ![r] = 200]
            /\ mdPc' = [mdPc EXCEPT ![r] = "done"]
       ELSE /\ mdPc' = [mdPc EXCEPT ![r] = "search"]
            /\ UNCHANGED mdResponse
    /\ UNCHANGED <<mdLines, mdVideos, mdOutcome, mdExit, file, downloads>>
    /\ UNCHANGED <<impl, now, tokState, ccState, cacheState, apiState>>

\* the metadata search fails and leaves no output
SearchFails(r) ==
    /\ mdPc[r] = "search"
    /\ UNCHANGED mdVideos
    /\ Settle(r, "searchFailed", 0)
    /\ UNCHANGED <<mdTarget, mdLines, mdExit, file, downloads>>
    /\ UNCHANGED <<impl, now, tokState, ccState, cacheState, apiState>>

\* the metadata search has ended with output: its lines are parsed and
\* filtered; no valid candidate is a failure; with a target the first one
\* inside the window is selected, and none inside is a failure; without a
\* target the first one is selected; the download of the selected one starts
SelectVideo(r, lines) ==
    /\ mdPc[r] = "search"
    /\ mdLines' = [mdLines EXCEPT ![r] = lines]
    /\ LET videos == SelectSeq(lines, IsValid)
           index == IF Len(videos) = 0 THEN 0
                    ELSE IF HasTarget(mdTarget[r])
                    THEN FirstAccepted(mdTarget[r], videos)
                    ELSE 1
       IN /\ mdVideos' = [mdVideos EXCEPT ![r] = videos]
          /\ IF Len(videos) = 0
             THEN Settle(r, "noValidVideo", 0) /\ UNCHANGED downloads
             ELSE IF index = 0
             THEN Settle(r, "noneInWindow", 0) /\ UNCHANGED downloads
             ELSE /\ mdOutcome' = [mdOutcome EXCEPT ![r] =
                                     [MdPending EXCEPT !.kind = "selected",
                                                       !.index = index]]
                  /\ mdPc' = [mdPc EXCEPT ![r] = "download"]
                  /\ downloads' = downloads \cup {r}
                  /\ UNCHANGED mdResponse
    /\ UNCHANGED <<mdTarget, mdExit, file>>
    /\ UNCHANGED <<impl, now, tokState, ccState, cacheState, apiState>>

\* a running downloader creates the output file
DownloaderWrites(r) ==
    /\ mdPc[r] = "download"
    /\ ~file
    /\ file' = TRUE
    /\ UNCHANGED <<mdPc, mdTarget, mdLines, mdVideos, mdOutcome, mdResponse,
                   mdExit, downloads>>
    /\ UNCHANGED <<impl, now, tokState, ccState, cacheState, apiState>>

DownloadOutcome_TrustExit(failed, exists) ==
    IF failed THEN "downloadFailed" ELSE "success"

\* the outcome after the downloader has exited: with an error, success if
\* the file exists and a failure otherwise; without an error, success if
\* the file exists and a failure otherwise
DownloadOutcome(failed, exists) ==
    IF failed
    THEN IF exists THEN "success" ELSE "downloadFailed"
    ELSE IF exists THEN "success" ELSE "fileMissing"

\* the downloader exits, with or without an error
DownloadExits(r, failed) ==
    /\ mdPc[r] = "download"
    /\ UNCHANGED mdVideos
    /\ mdExit' = [mdExit EXCEPT ![r] = IF failed THEN "error" ELSE "ok"]
    /\ Settle(r, DownloadOutcome(failed, file), mdOutcome[r].index)
    /\ UNCHANGED <<mdTarget, mdLines, file, downloads>>
    /\ UNCHANGED <<impl, now, tokState, ccState, cacheState, apiState>>

NextMedia ==
    \/ \E t \in DurationParams : Stream("r1", t)
    \/ SearchFails("r1")
    \/ \E l \in Lines : SelectVideo("r1", l)
    \/ DownloaderWrites("r1")
    \/ \E failed \in BOOLEAN : DownloadExits("r1", failed)

SpecMedia == InitMedia /\ [][NextMedia]_vars

\* the selection of request r1 has been made with a target
Decided ==
    /\ mdPc["r1"] \in {"download", "done"}
    /\ HasTarget(mdTarget["r1"])
    /\ mdOutcome["r1"].kind \notin {"pending", "searchFailed"}
Chosen == mdOutcome["r1"].index
\* the candidates the loop has examined: up to the selected one, or all
Reached(i) ==
    /\ i \in 1..Len(mdVideos["r1"])
    /\ Chosen # 0 => i <= Chosen
Taken(i) == Chosen = i

\* target - tol <= d <= target + tol in seconds, with the target t in
\* milliseconds, cleared of fractions: tol is 5 below 50 s, 15 above 150 s
InWindow(d, t) ==
    LET tol10000 == IF t < 50000 THEN 50000
                    ELSE IF t > 150000 THEN 150000 ELSE t
    IN /\ 10 * t - tol10000 <= 10000 * d
       /\ 10000 * d <= 10 * t + tol10000

\* C20: with a target duration a candidate is accepted exactly when its
\* duration d lies in [target - tol, target + tol], target =
\* targetDurationMs / 1000 and tol = max(5, min(15, target * 0.10)); for
\* 200 s the window is [185, 215].
C20_AcceptedIffInWindow ==
    Decided =>
        /\ \A i \in 1..Len(mdVideos["r1"]) :
             Reached(i)
             => (Taken(i) <=> InWindow(mdVideos["r1"][i].duration, mdTarget["r1"]))
        /\ mdTarget["r1"] = 200000
           => \A i \in 1..Len(mdVideos["r1"]) :
                Reached(i)
                => (Taken(i) <=> mdVideos["r1"][i].duration \in 185..215)

\* target 200 s: a candidate of 170 s is passed over, one of 190 s is taken
C20_Witness ==
    /\ Decided
    /\ mdTarget["r1"] = 200000
    /\ Len(mdVideos["r1"]) >= 2
    /\ mdVideos["r1"][1].duration = 170
    /\ mdVideos["r1"][2].duration = 190
    /\ Taken(2)

\* the positions of the candidates of r1 whose duration is in the window
WindowPositions ==
    {i \in 1..Len(mdVideos["r1"]) :
       InWindow(mdVideos["r1"][i].duration, mdTarget["r1"])}

\* the lines of r1 that have a URL and a number as duration, in their order
Usable(video) ==
    /\ video # NullLine
    /\ video.url = "u"
    /\ video.duration \in Durations
UsableLines == SelectSeq(mdLines["r1"], Usable)

NotFound == {"noValidVideo", "noneInWindow"}

\* C22: with a target duration and no valid candidate in the window,
\* searchAndDownload fails with the not-found outcome, selects no
\* candidate and does not invoke the downloader.
C22_NoneInWindowIsNotFound ==
    (Decided /\ WindowPositions = {})
    => /\ mdPc["r1"] = "done"
       /\ mdOutcome["r1"].kind \in NotFound
       /\ Chosen = 0
       /\ "r1" \notin downloads
       /\ ~file

\* target 200 s, candidates of 170 s and 216 s: not found
C22_Witness ==
    /\ Decided
    /\ mdTarget["r1"] = 200000
    /\ Len(mdVideos["r1"]) = 2
    /\ mdVideos["r1"][1].duration = 170
    /\ mdVideos["r1"][2].duration = 216
    /\ mdOutcome["r1"].kind = "noneInWindow"
    /\ "r1" \notin downloads

\* searchAndDownload of r1 has read the search output and made its choice
Selecting ==
    /\ mdPc["r1"] \in {"download", "done"}
    /\ mdOutcome["r1"].kind \notin {"pending", "searchFailed"}

\* C23: candidates without URL or without a number as duration are
\* discarded; the first remaining candidate is selected without a duration
\* check only when no target duration is supplied; whenever the caller
\* supplies one, as both stream routes do from duration_ms, the selected
\* candidate is in the window.
C23_WindowWheneverSupplied ==
    Selecting
    => /\ mdVideos["r1"] = UsableLines
       /\ Chosen # 0
          => /\ mdTarget["r1"] # NotANumber
             /\ InWindow(mdVideos["r1"][Chosen].duration, mdTarget["r1"])

\* C24: when the downloader process reports an error, searchAndDownload
\* yields success exactly if the output file exists afterwards; otherwise it
\* fails with a Failure outcome that carries the process's diagnostic message.
C24_ErrorExitDecidedByFile ==
    mdExit["r1"] = "error"
    => /\ mdPc["r1"] = "done"
       /\ mdOutcome["r1"].kind = "success" <=> file
       /\ ~file
          => /\ mdOutcome["r1"].kind = "downloadFailed"
             /\ includes(mdOutcome["r1"].message, Diagnostic)

\* the downloader wrote the file and then exited with an error: success
C24_Witness ==
    /\ mdExit["r1"] = "error"
    /\ file
    /\ mdOutcome["r1"].kind = "success"
    /\ mdResponse["r1"] = 200

ProcessFailure == {"searchFailed", "downloadFailed", "fileMissing"}

\* C25: every not-found outcome of searchAndDownload (no valid candidate,
\* or none in the duration window) is answered with HTTP 404 and every
\* downloader or process failure with HTTP 500, never the other way round.
C25_NotFoundIs404FailureIs500 ==
    mdPc["r1"] = "done"
    => /\ mdOutcome["r1"].kind \in NotFound => mdResponse["r1"] = 404
       /\ mdOutcome["r1"].kind \in ProcessFailure => mdResponse["r1"] = 500

(***************************************************************************)
(* Upstream calls that get no answer                                       *)
(***************************************************************************)

\* The steps _makeApiRequest takes by itself are taken sooner or later; the
\* answer to fetch is the remote side's step and may never come. fetch is
\* called without a timeout or an abort signal, so no step of the program
\* ends the wait.
SpecRequestFair ==
    /\ SpecRequest
    /\ WF_vars(MakeApiRequest)
    /\ WF_vars(ThrowApiError)
    /\ WF_vars(ReturnJson)

\* C26: every upstream interaction is time-bounded: a catalog HTTP call
\* that has been sent eventually completes with a result or a failure, even
\* if the remote side never responds.
C26_FetchEventuallyCompletes == (apiPc = "fetch") ~> (apiPc = "done")

----------------------------------------------------------------------------
(* Invocations of the fetcher *)

\* C27: each invocation of _getWithCache calls the fetcher at most once,
\* whatever the outcome of the cache read, of the fetcher and of the cache
\* write; a fetcher that fails is not called a second time.
C27_FetcherAtMostOnce == \A c \in Calls : gcalls[c] <= 1

----------------------------------------------------------------------------
(* Refreshes of one session against a provider that rotates refresh tokens *)

\* the session holds an expired record with a refresh token
InitRotation ==
    /\ impl \in {"session", "redis"}
    /\ now = 0
    /\ tokens \in { << Rec(0, 0, e, 0) >> : e \in InitExpiresAt }
    /\ pc = [c \in Calls |-> "idle"]
    /\ snap = [c \in Calls |-> NoRec]
    /\ rt = [c \in Calls |-> Undef]
    /\ resp = [c \in Calls |-> NoResp]
    /\ rret = [c \in Calls |-> Undef]
    /\ ret = [c \in Calls |-> Pending]
    /\ issued = 0
    /\ revoked = {}
    /\ loggedOut = FALSE
    /\ InitCCIdle
    /\ InitCacheIdle
    /\ InitApiIdle
    /\ InitMediaIdle

\* the provider answers a refresh request: a refresh token it has
\* invalidated is rejected with 400; a valid one gets a new pair of tokens
\* and is invalidated, unless the provider or the network fails
ProviderRotates(c) ==
    /\ pc[c] = "fetching"
    /\ IF rt[c] \in revoked
       THEN /\ resp' = [resp EXCEPT ![c] = [NoResp EXCEPT !.status = 400]]
            /\ UNCHANGED <<issued, revoked>>
       ELSE \/ /\ issued < MaxIssued
               /\ issued' = issued + 1
               /\ revoked' = revoked \cup {rt[c]}
               /\ \E e \in ExpiresInChoices :
                    resp' = [resp EXCEPT ![c] =
                               [status |-> 200, access_token |-> issued + 1,
                                refresh_token |-> issued + 1,
                                expires_in |-> e, scope |-> 1]]
            \/ /\ \E st \in {500, StatusNetErr} :
                    resp' = [resp EXCEPT ![c] = [NoResp EXCEPT !.status = st]]
               /\ UNCHANGED <<issued, revoked>>
    /\ pc' = [pc EXCEPT ![c] = "responded"]
    /\ UNCHANGED <<impl, now, tokens, snap, rt, rret, ret, loggedOut>>
    /\ UNCHANGED <<ccState, cacheState, apiState, mediaState>>

NextRotation ==
    \/ Tick
    \/ \E c \in Calls : GetUserTokens(c)
    \/ \E c \in Calls : GutReply(c)
    \/ \E c \in Calls : RefReply(c)
    \/ \E c \in Calls : ProviderRotates(c)
    \/ \E c \in Calls : HandleResponse(c)
    \/ \E c \in Calls : AfterStore(c)
    \/ \E c \in Calls : ReadbackReply(c)
    \/ \E c \in Calls : Refreshed(c)
    \/ \E c \in Calls : FinalReply(c)

SpecRotation == InitRotation /\ [][NextRotation]_vars

\* the record was written by a successful refresh
WrittenByRefresh == tokens # NoRec /\ tokens[1].accessToken >= 1

\* call c handles the rejection of a refresh that it started with a refresh
\* token older than the one of the record
StaleRejection(c) ==
    /\ pc[c] = "responded"
    /\ pc'[c] = "done"
    /\ resp[c].status = 400
    /\ rt[c] \in revoked
    /\ WrittenByRefresh
    /\ tokens[1].refreshToken # rt[c]

\* C28: with a provider that rotates refresh tokens, no interleaving of
\* getUserTokens calls of one session deletes a record written by a
\* successful refresh because another refresh of the session, started with
\* the older refresh token, was rejected.
C28_StaleRejectionKeepsRecord ==
    [][\A c \in Calls : StaleRejection(c) => tokens' # NoRec]_vars

----------------------------------------------------------------------------
(* Logout while getUserTokens calls of the session are under way *)

\* the session is logged in; its record is about to expire
InitLogout ==
    /\ impl = "redis"
    /\ now = 0
    /\ tokens = << Rec(0, 0, TickMs, 0) >>
    /\ pc = [c \in Calls |-> "idle"]
    /\ snap = [c \in Calls |-> NoRec]
    /\ rt = [c \in Calls |-> Undef]
    /\ resp = [c \in Calls |-> NoResp]
    /\ rret = [c \in Calls |-> Undef]
    /\ ret = [c \in Calls |-> Pending]
    /\ issued = 0
    /\ revoked = {}
    /\ loggedOut = FALSE
    /\ InitCCIdle
    /\ InitCacheIdle
    /\ InitApiIdle
    /\ InitMediaIdle

\* GET /auth/logout: the session is destroyed and clearUserTokens deletes
\* its record
Logout ==
    /\ ~loggedOut
    /\ tokens' = NoRec
    /\ loggedOut' = TRUE
    /\ UNCHANGED <<impl, now, pc, snap, rt, resp, rret, ret, issued, revoked>>
    /\ UNCHANGED <<ccState, cacheState, apiState, mediaState>>

\* GET /auth/callback: the authorization code is exchanged for a pair of
\* tokens and setUserTokens stores them
AuthCallback ==
    /\ issued < MaxIssued
    /\ issued' = issued + 1
    /\ \E e \in ExpiresInChoices :
         tokens' = setUserTokens(tokens,
                     [status |-> 200, access_token |-> issued + 1,
                      refresh_token |-> issued + 1, expires_in |-> e,
                      scope |-> 1])
    /\ loggedOut' = FALSE
    /\ UNCHANGED <<impl, now, pc, snap, rt, resp, rret, ret, revoked>>
    /\ UNCHANGED <<ccState, cacheState, apiState, mediaState>>

NextLogout ==
    \/ Tick
    \/ \E c \in Calls : GetUserTokens(c)
    \/ \E c \in Calls : GutReply(c)
    \/ \E c \in Calls : RefReply(c)
    \/ \E c \in Calls : ProviderRespond(c)
    \/ \E c \in Calls : HandleResponse(c)
    \/ \E c \in Calls : AfterStore(c)
    \/ \E c \in Calls : ReadbackReply(c)
    \/ \E c \in Calls : Refreshed(c)
    \/ \E c \in Calls : FinalReply(c)
    \/ Logout
    \/ AuthCallback

SpecLogout == InitLogout /\ [][NextLogout]_vars

\* C29: once logout has destroyed the session's record, no record of the
\* session exists until a new authorization-code exchange stores one; a
\* refresh in flight at the logout does not re-create it.
C29_NoRecordAfterLogout == loggedOut => tokens = NoRec

----------------------------------------------------------------------------
(* Stream requests for one artist and title, hence one output path *)

StreamTarget == 200000
\* search outputs: nothing valid, a candidate outside the window, one inside
StreamLines ==
    { << >>,
      << [url |-> "u", duration |-> 170] >>,
      << [url |-> "u", duration |-> 190] >> }

\* the file is not on disk yet
InitStream ==
    /\ impl \in {"session", "redis"}
    /\ now = 0
    /\ InitTokIdle
    /\ InitCCIdle
    /\ InitCacheIdle
    /\ InitApiIdle
    /\ InitMediaIdle

NextStream ==
    \/ \E r \in Requests : Stream(r, StreamTarget)
    \/ \E r \in Requests : SearchFails(r)
    \/ \E r \in Requests, l \in StreamLines : SelectVideo(r, l)
    \/ \E r \in Requests : DownloaderWrites(r)
    \/ \E r \in Requests, failed \in BOOLEAN : DownloadExits(r, failed)

SpecStream == InitStream /\ [][NextStream]_vars

\* the requests whose downloader process is running
Downloading == {r \in Requests : mdPc[r] = "download"}

\* request r answers 200: it starts streaming the file
StartsStreaming(r) == mdResponse[r] # 200 /\ mdResponse'[r] = 200

\* C30: for stream requests of the same output path while the file is not
\* yet on disk, at most one downloader invocation writing the path is in
\* flight at a time, and no request starts streaming the file, or reports
\* success for it, while a download writing it is still running.
C30_OneDownloadNoEarlyStream ==
    [][/\ Cardinality(Downloading') <= 1
       /\ \A r \in Requests :
            StartsStreaming(r) => Downloading' = {}]_vars

====
